---- MODULE Spec2Model ----
(***************************************************************************)
(* A model of tari_utilities' SafeArray<T, N> (src/src/safe_array.rs) and  *)
(* of the MessageFormat blanket implementation                             *)
(* (src/src/message_format.rs).                                            *)
(*                                                                         *)
(* SafeArray<T, N> is a newtype over Vec<T>.  A Vec is modelled as the     *)
(* triple it is: a pointer to an allocation, a length, and the cells of    *)
(* the allocation (its capacity).  T is u8.                                *)
(***************************************************************************)
EXTENDS Integers, Sequences, FiniteSets, TLC

\* ------------------------------------------------------------------ bounds
\* The const generic N of SafeArray<T, N>.
N == 2
\* from_base64 is applied to strings of at most MaxMsgLen characters.
MaxMsgLen == 4
\* from_binary is applied to byte strings of at most MaxBinLen bytes.
MaxBinLen == 2

\* The variables of the calling code that may hold a SafeArray.
Slots == {"a", "b"}
\* T is u8; the element values the model writes: zero, one, and the largest.
Elem == {0, 1, 255}

\* <u8 as Default>::default()
TDefault == 0
\* The value <u8 as Zeroize>::zeroize() writes.
ZeroValue == 0
\* pub const LEN: usize = N;
LEN == N

VARIABLES
    vec,    \* vec[s]: the SafeArray held by variable s: [live, ptr, len]
    heap,   \* heap[p]: the cells (the whole capacity) of allocation p
    origin, \* origin[s]: how the value in s was constructed
    last,   \* the last operation run, its operands and what it returned
    msg,    \* the last MessageFormat call: [op, arg]
    out     \* the Result of the last MessageFormat call

vars == <<vec, heap, origin, last, msg, out>>
saVars == <<vec, heap, origin, last>>
mfVars == <<msg, out>>

\* --------------------------------------------------------- u8 arithmetic
RECURSIVE BitXor(_, _, _)
BitXor(x, y, w) ==
    IF w = 0 THEN 0
    ELSE (((x % 2) + (y % 2)) % 2) + 2 * BitXor(x \div 2, y \div 2, w - 1)

RECURSIVE BitOr(_, _, _)
BitOr(x, y, w) ==
    IF w = 0 THEN 0
    ELSE (IF (x % 2) + (y % 2) > 0 THEN 1 ELSE 0) + 2 * BitOr(x \div 2, y \div 2, w - 1)

RECURSIVE BitAnd(_, _, _)
BitAnd(x, y, w) ==
    IF w = 0 THEN 0
    ELSE ((x % 2) * (y % 2)) + 2 * BitAnd(x \div 2, y \div 2, w - 1)

WrappingNeg8(x) == (256 - x) % 256

\* subtle: impl ConstantTimeEq for u8.
\*   let x = self ^ other; let y = (x | x.wrapping_neg()) >> 7; (y ^ 1).into()
U8CtEq(a, b) ==
    LET x == BitXor(a, b, 8)
        y == BitOr(x, WrappingNeg8(x), 8) \div 128
    IN  BitXor(y, 1, 8)

\* U8CtEq over the element values, evaluated once.
U8CtEqTable == [a \in Elem, b \in Elem |-> U8CtEq(a, b)]

\* The u8 & of two Choice bytes, evaluated once.
ChoiceAndTable == [p \in 0..1, q \in 0..1 |-> BitAnd(p, q, 8)]

\* ------------------------------------------------------- slice comparison
Min(x, y) == IF x <= y THEN x ELSE y

\* The loop of subtle's impl ConstantTimeEq for [T]:
\*   let mut x = 1u8; for (ai, bi) in zip { x &= ai.ct_eq(bi).unwrap_u8(); }
\* visited counts the element pairs examined.
RECURSIVE CtEqLoop(_, _, _, _, _)
CtEqLoop(x, y, i, n, acc) ==
    IF i > n THEN [choice |-> acc, visited |-> i - 1]
    ELSE CtEqLoop(x, y, i + 1, n, ChoiceAndTable[acc, U8CtEqTable[x[i], y[i]]])

\* A comparison that zips the two slices without comparing their lengths.
SliceCtEqNoLenCheck(x, y) == CtEqLoop(x, y, 1, Min(Len(x), Len(y)), 1)

\* self.0.ct_eq(&other.0): subtle's slice comparison, which returns
\* Choice(0) at once when the lengths differ and otherwise runs the loop.
SliceCtEq(x, y) ==
    IF Len(x) # Len(y) THEN [choice |-> 0, visited |-> 0]
    ELSE CtEqLoop(x, y, 1, Len(x), 1)

\* ----------------------------------------------------------- Vec helpers
\* A vector of n elements that is one short.
VecFromElemShort(elem, n) == [i \in 1..(n - 1) |-> elem]

\* vec![elem; n]
VecFromElem(elem, n) == [i \in 1..n |-> elem]

\* A wipe that only clears the vector and leaves the old bytes in place.
VecClearOnly(cells, len) == [cells |-> cells, len |-> 0]

\* zeroize's impl Zeroize for Vec<Z>: zeroize every element, clear() the
\* vector (its length becomes 0), then zero the whole spare capacity.
VecZeroize(cells, len) ==
    [cells |-> [i \in 1..Len(cells) |-> ZeroValue], len |-> 0]

\* Vec::clone: a new allocation holding copies of the len elements.
VecClone(cells, len) == SubSeq(cells, 1, len)

\* A copy that shares the source's allocation.
CloneShare(src, dst) == vec[src].ptr

\* The allocation a clone made into variable dst owns: a fresh one.
CloneAlloc(src, dst) == dst

\* A release that wipes the cells first.
DropWipes(cells) == [i \in 1..Len(cells) |-> ZeroValue]

\* What the cells hold when the allocation is handed back: SafeArray has no
\* Drop implementation and Vec<u8>'s drop writes nothing.
DropRelease(cells) == cells

\* ------------------------------------------------------------- accessors
\* as_ref() / deref(): &self.0 as a slice.
AsRef(s) == SubSeq(heap[vec[s].ptr], 1, vec[s].len)

\* <[T]>::len() through Deref.
SliceLen(s) == Len(AsRef(s))

Live == {s \in Slots : vec[s].live}

\* last: op names the operation, a and b its operands; choice, eq and visited
\* are what a comparison returned and how many element pairs it examined;
\* residue is what a released allocation held; after names, for a zeroize(),
\* the step before it when that was a write to or a zeroize() of the same
\* value.
NoOp == [op |-> "none", a |-> "a", b |-> "a", choice |-> 0, eq |-> FALSE,
         visited |-> 0, residue |-> <<>>, after |-> "other"]

Dead(s) == [live |-> FALSE, ptr |-> s, len |-> 0]

\* ---------------------------------------------------------------- Init
Init ==
    /\ vec = [s \in Slots |-> Dead(s)]
    /\ heap = [s \in Slots |-> <<>>]
    /\ origin = [s \in Slots |-> "none"]
    /\ last = NoOp
    /\ msg = [op |-> "none", arg |-> <<>>]
    /\ out = [tag |-> "None", val |-> "None"]

\* ------------------------------------------------------ SafeArray actions
\* let s = SafeArray::<u8, N>::default();
Default(s) ==
    /\ ~vec[s].live
    /\ LET cells == VecFromElem(TDefault, N)
       IN  /\ heap' = [heap EXCEPT ![s] = cells]
           /\ vec' = [vec EXCEPT ![s] = [live |-> TRUE, ptr |-> s, len |-> Len(cells)]]
    /\ origin' = [origin EXCEPT ![s] = "default"]
    /\ last' = [NoOp EXCEPT !.op = "default", !.a = s]
    /\ UNCHANGED mfVars

\* s.as_mut()[i] = v / s.deref_mut()[i] = v: a write through the mutable
\* slice, which has the vector's length (an index beyond it panics and
\* writes nothing).
AsMutWrite(s, i, v) ==
    /\ vec[s].live
    /\ i \in 1..vec[s].len
    /\ heap' = [heap EXCEPT ![vec[s].ptr][i] = v]
    /\ last' = [NoOp EXCEPT !.op = "write", !.a = s]
    /\ UNCHANGED <<vec, origin, mfVars>>

\* s.zeroize()
Zeroize(s) ==
    /\ vec[s].live
    /\ LET z == VecZeroize(heap[vec[s].ptr], vec[s].len)
       IN  /\ heap' = [heap EXCEPT ![vec[s].ptr] = z.cells]
           /\ vec' = [vec EXCEPT ![s].len = z.len]
    /\ last' = [NoOp EXCEPT !.op = "zeroize", !.a = s,
                            !.after = IF last.a = s /\ last.op \in {"write", "zeroize"}
                                      THEN last.op ELSE "other"]
    /\ UNCHANGED <<origin, mfVars>>

\* let dst = src.clone();   (#[derive(Clone)])
Clone(src, dst) ==
    /\ vec[src].live
    /\ ~vec[dst].live
    /\ LET p == CloneAlloc(src, dst)
           cells == VecClone(heap[vec[src].ptr], vec[src].len)
       IN  /\ heap' = IF p = dst THEN [heap EXCEPT ![p] = cells] ELSE heap
           /\ vec' = [vec EXCEPT ![dst] = [live |-> TRUE, ptr |-> p, len |-> Len(cells)]]
    /\ origin' = [origin EXCEPT ![dst] = "clone"]
    /\ last' = [NoOp EXCEPT !.op = "clone", !.a = src, !.b = dst]
    /\ UNCHANGED mfVars

\* s goes out of scope: the Vec's allocation is handed back to the allocator.
\* residue is what the cells hold at that moment.
Drop(s) ==
    /\ vec[s].live
    /\ last' = [NoOp EXCEPT !.op = "drop", !.a = s,
                            !.residue = DropRelease(heap[vec[s].ptr])]
    /\ heap' = [heap EXCEPT ![vec[s].ptr] = <<>>]
    /\ vec' = [vec EXCEPT ![s] = Dead(s)]
    /\ origin' = [origin EXCEPT ![s] = "none"]
    /\ UNCHANGED mfVars

\* a.ct_eq(&b)
CtEq(a, b) ==
    /\ vec[a].live /\ vec[b].live
    /\ LET r == SliceCtEq(AsRef(a), AsRef(b))
       IN  last' = [NoOp EXCEPT !.op = "ct_eq", !.a = a, !.b = b,
                                !.choice = r.choice, !.eq = (r.choice = 1),
                                !.visited = r.visited]
    /\ UNCHANGED <<vec, heap, origin, mfVars>>

\* The value of a == b: self.ct_eq(other).unwrap_u8() == 1u8
EqValue(x, y) == SliceCtEq(x, y).choice = 1

\* a == b
Eq(a, b) ==
    /\ vec[a].live /\ vec[b].live
    /\ LET r == SliceCtEq(AsRef(a), AsRef(b))
       IN  last' = [NoOp EXCEPT !.op = "eq", !.a = a, !.b = b,
                                !.choice = r.choice, !.eq = EqValue(AsRef(a), AsRef(b)),
                                !.visited = r.visited]
    /\ UNCHANGED <<vec, heap, origin, mfVars>>

Next ==
    \/ \E s \in Slots : Default(s)
    \/ \E s \in Slots : \E i \in 1..N : \E v \in Elem : AsMutWrite(s, i, v)
    \/ \E s \in Slots : Zeroize(s)
    \/ \E src \in Slots : \E dst \in Slots : Clone(src, dst)
    \/ \E s \in Slots : Drop(s)
    \/ \E a \in Slots : \E b \in Slots : CtEq(a, b)
    \/ \E a \in Slots : \E b \in Slots : Eq(a, b)

Spec == Init /\ [][Next]_vars

\* ------------------------------------------------------- MessageFormat
\* The characters the modelled strings are made of: four characters of the
\* standard base64 alphabet, the padding character, and one outside it.
Chars == {"A", "B", "E", "Q", "=", "$"}
PadChar == "="
\* base64's tables::INVALID_VALUE, the decode table's entry for a byte
\* outside the alphabet.
InvalidValue == 255

\* The standard alphabet's decode table, on Chars.
DecodeTable(c) ==
    CASE c = "A" -> 0
      [] c = "B" -> 1
      [] c = "E" -> 4
      [] c = "Q" -> 16
      [] OTHER -> InvalidValue

Msgs == UNION {[1..n -> Chars] : n \in 0..MaxMsgLen}

\* The bytes from_binary is handed directly.
ByteSamples == {0, 1, 2, 255}
Bins == UNION {[1..n -> ByteSamples] : n \in 0..MaxBinLen}

RECURSIVE Pow(_, _)
Pow(b, e) == IF e = 0 THEN 1 ELSE b * Pow(b, e - 1)

\* The nb bytes of v, most significant first.
RECURSIVE BigEndian(_, _)
BigEndian(v, nb) ==
    IF nb = 0 THEN <<>> ELSE Append(BigEndian(v \div 256, nb - 1), v % 256)

DecodeErr == [ok |-> FALSE, bytes |-> <<>>]

\* base64's decode loop over the last (here: only) chunk of the input.
\* i is the 1-based position, pads the padding characters seen, k the
\* symbols decoded and bits their 6-bit values, first symbol highest.
RECURSIVE DecodeChunk(_, _, _, _, _)
DecodeChunk(m, i, pads, k, bits) ==
    IF i > Len(m)
    THEN LET nb == (6 * k) \div 8
             tb == 6 * k - 8 * nb
         IN  IF bits % Pow(2, tb) # 0 THEN DecodeErr
             ELSE [ok |-> TRUE, bytes |-> BigEndian(bits \div Pow(2, tb), nb)]
    ELSE IF m[i] = PadChar
         THEN IF (i - 1) % 4 < 2 THEN DecodeErr
              ELSE DecodeChunk(m, i + 1, pads + 1, k, bits)
         ELSE IF pads > 0 THEN DecodeErr
              ELSE IF DecodeTable(m[i]) = InvalidValue THEN DecodeErr
                   ELSE DecodeChunk(m, i + 1, pads, k + 1, bits * 64 + DecodeTable(m[i]))

\* base64::decode(msg), standard alphabet: a length of 1 or 5 modulo 8 is
\* refused; padding may only end a quad that holds at least two symbols and
\* nothing may follow it; the bits of the last symbol that fall outside the
\* last whole byte must be zero.
Base64Decode(m) ==
    IF Len(m) % 8 \in {1, 5} THEN DecodeErr
    ELSE DecodeChunk(m, 1, 0, 0, 0)

\* bincode::deserialize::<Option<bool>>(bytes): a tag byte, 0 for None and 1
\* for Some, then for Some one byte, 0 or 1.  Bytes after the value are
\* ignored; missing bytes and any other tag or bool byte are errors.
BincodeDeserialize(bytes) ==
    IF Len(bytes) = 0 THEN [ok |-> FALSE, val |-> "None"]
    ELSE IF bytes[1] = 0 THEN [ok |-> TRUE, val |-> "None"]
    ELSE IF bytes[1] # 1 \/ Len(bytes) < 2 THEN [ok |-> FALSE, val |-> "None"]
    ELSE IF bytes[2] = 0 THEN [ok |-> TRUE, val |-> "Some(false)"]
    ELSE IF bytes[2] = 1 THEN [ok |-> TRUE, val |-> "Some(true)"]
    ELSE [ok |-> FALSE, val |-> "None"]

Ok(v) == [tag |-> "Ok", val |-> v]
Err(e) == [tag |-> "Err", val |-> e]

\* from_binary(msg)
FromBinary(bytes) ==
    LET d == BincodeDeserialize(bytes)
    IN  IF d.ok THEN Ok(d.val) ELSE Err("BinaryDeserializeError")

\* A from_base64 that reports a string that is not base64 as a binary error.
FromBase64OneError(m) ==
    LET buf == Base64Decode(m)
    IN  IF ~buf.ok THEN Err("BinaryDeserializeError") ELSE FromBinary(buf.bytes)

\* from_base64(msg)
FromBase64(m) ==
    LET buf == Base64Decode(m)
    IN  IF ~buf.ok THEN Err("Base64DeserializeError") ELSE FromBinary(buf.bytes)

NoCall == [op |-> "none", arg |-> <<>>]
NoResult == [tag |-> "None", val |-> "None"]

\* let out = T::from_base64(m);
CallFromBase64(m) ==
    /\ msg = NoCall
    /\ msg' = [op |-> "from_base64", arg |-> m]
    /\ out' = FromBase64(m)
    /\ UNCHANGED saVars

\* let out = T::from_binary(b);
CallFromBinary(b) ==
    /\ msg = NoCall
    /\ msg' = [op |-> "from_binary", arg |-> b]
    /\ out' = FromBinary(b)
    /\ UNCHANGED saVars

\* The caller is done with the Result; the next call can be made.
TakeResult ==
    /\ msg # NoCall
    /\ msg' = NoCall
    /\ out' = NoResult
    /\ UNCHANGED saVars

NextMF ==
    \/ \E m \in Msgs : CallFromBase64(m)
    \/ \E b \in Bins : CallFromBinary(b)
    \/ TakeResult

SpecMF == Init /\ [][NextMF]_vars

\* =================================================================== claims
AllZero(cells) == \A i \in 1..Len(cells) : cells[i] = ZeroValue

\* The slices a SafeArray<u8, N> can show: N elements, or none once wiped.
SliceValues == {<<>>} \cup [1..N -> Elem]

\* C1: every live SafeArray shows a slice of exactly N elements, whatever
\* operations have run on it.
C1_LengthIsN == \A s \in Live : SliceLen(s) = N

\* C2: for any two buffers, ct_eq and == agree, and they say "equal" exactly
\* when every pair of corresponding elements is equal.
C2_EqIffElementsEqual ==
    \A a \in Live : \A b \in Live :
        LET x == AsRef(a)
            y == AsRef(b)
        IN  /\ (SliceCtEq(x, y).choice = 1) = EqValue(x, y)
            /\ EqValue(x, y) <=> (\A i \in 1..Min(Len(x), Len(y)) : x[i] = y[i])

\* C3: a buffer that was written and then wiped compares equal (ct_eq and
\* ==) to a freshly default-constructed buffer; a buffer just written that
\* holds a non-zero element compares unequal to the default buffer and
\* equal to a buffer holding the same elements.
C3_WipedEqualsDefault ==
    LET fresh == VecFromElem(TDefault, N)
        x == AsRef(last.a)
    IN  /\ (last.op = "zeroize" /\ last.after = "write") =>
              /\ SliceCtEq(x, fresh).choice = 1
              /\ EqValue(x, fresh)
        /\ (last.op = "write" /\ ~AllZero(x)) =>
              /\ ~EqValue(x, fresh)
              /\ EqValue(x, x)

\* C4: a step that wipes a buffer leaves every element it shows, and every
\* cell of its storage, equal to the clear value; a wipe that directly
\* follows a wipe of the same buffer changes nothing.
C4_WipeClearsAndIsIdempotent ==
    [][\A s \in Slots :
          (last'.op = "zeroize" /\ last'.a = s) =>
              /\ vec'[s].live
              /\ Len(heap'[vec'[s].ptr]) = Len(heap[vec[s].ptr])
              /\ AllZero(heap'[vec'[s].ptr])
              /\ AllZero(AsRef(s)')
              /\ last'.after = "zeroize" => (vec' = vec /\ heap' = heap)]_vars

\* C4 witness: a buffer with storage for N elements has been wiped twice.
C4_Witness ==
    /\ last.op = "zeroize"
    /\ last.after = "zeroize"
    /\ Len(heap[vec[last.a].ptr]) = N

C6_DefaultIsNDefaults ==
    last.op = "default" =>
        /\ SliceLen(last.a) = N
        /\ SliceLen(last.a) = LEN
        /\ \A i \in 1..N : AsRef(last.a)[i] = TDefault
        /\ TDefault = 0

\* C6 witness: a buffer has just been default-constructed.
C6_Witness == last.op = "default" /\ vec[last.a].live

\* C7: a clone compares equal to its source, has the source's length, owns
\* storage of its own and leaves the source as it was; and a write to or a
\* wipe of one buffer leaves every other live buffer's elements unchanged.
C7_CloneEqualAndIndependent ==
    [][\A s \in Slots : \A t \in Slots :
          /\ (last'.op = "clone" /\ last'.a = s /\ last'.b = t) =>
                /\ vec'[t].ptr # vec'[s].ptr
                /\ AsRef(s)' = AsRef(s)
                /\ SliceLen(t)' = SliceLen(s)
                /\ EqValue(AsRef(s), AsRef(t))'
          /\ (s # t /\ last'.op \in {"write", "zeroize"} /\ last'.a = s /\ vec[t].live) =>
                /\ vec'[t].ptr # vec'[s].ptr
                /\ AsRef(t)' = AsRef(t)]_vars

\* C7 witness: a clone has just been written through its mutable view and
\* now differs from the default-constructed buffer beside it.
C7_Witness ==
    /\ last.op = "write"
    /\ origin[last.a] = "clone"
    /\ \E t \in Live : /\ origin[t] = "default"
                       /\ SliceLen(t) = SliceLen(last.a)
                       /\ AsRef(t) # AsRef(last.a)

\* C8: == is reflexive, symmetric and transitive on the buffers that exist,
\* wiped ones included, taken together with every value z a buffer can
\* show: x == x; x == y implies y == x; x == y and y == z imply x == z;
\* and x == z and z == y imply x == y (stated as: when x # y, no z equals
\* both).
C8_EqIsEquivalence ==
    \A a \in Live : \A b \in Live :
        LET x == AsRef(a)
            y == AsRef(b)
        IN  /\ SliceCtEq(x, x).choice = 1
            /\ EqValue(x, x)
            /\ EqValue(x, y) =>
                  /\ EqValue(y, x)
                  /\ \A z \in SliceValues : EqValue(y, z) => EqValue(x, z)
            /\ ~EqValue(x, y) =>
                  \A z \in SliceValues : ~(EqValue(x, z) /\ EqValue(z, y))

\* C8 witness: a wiped buffer has just been compared with one of N elements.
C8_Witness ==
    /\ last.op = "eq"
    /\ SliceLen(last.a) = 0
    /\ SliceLen(last.b) = N
    /\ ~last.eq

\* C9: from_base64 returns Err(Base64DeserializeError) when the string is
\* not base64; when it is base64 but its bytes do not decode as the target
\* type it returns Err(BinaryDeserializeError), as from_binary does for
\* those bytes; otherwise it returns Ok with from_binary's value.
C9_FromBase64Errors ==
    msg.op = "from_base64" =>
        LET buf == Base64Decode(msg.arg)
            d == BincodeDeserialize(buf.bytes)
        IN  /\ ~buf.ok => out = Err("Base64DeserializeError")
            /\ (buf.ok /\ ~d.ok) =>
                  /\ out = Err("BinaryDeserializeError")
                  /\ out = FromBinary(buf.bytes)
            /\ (buf.ok /\ d.ok) =>
                  /\ out = Ok(d.val)
                  /\ out = FromBinary(buf.bytes)
            /\ out.tag \in {"Ok", "Err"}
            /\ out.tag = "Err" =>
                  out.val \in {"Base64DeserializeError", "BinaryDeserializeError"}

\* C9 witness: a base64 string whose bytes are no Option<bool>.
C9_Witness ==
    /\ msg.op = "from_base64"
    /\ Base64Decode(msg.arg).ok
    /\ Len(Base64Decode(msg.arg).bytes) > 0
    /\ out = Err("BinaryDeserializeError")

\* C10: every comparison examines all N element pairs.
C10_VisitsAllN == last.op \in {"ct_eq", "eq"} => last.visited = N

====
